---- MODULE Spec2Model ----
(***************************************************************************)
(* Module catalog and command processor (src/backend/commands/modulecmds.c *)
(* with the pg_module.c part it embeds): CREATE MODULE with its embedded   *)
(* body, ALTER MODULE ... CREATE/REPLACE FUNCTION, ALTER MODULE ... ALTER  *)
(* FUNCTION, ALTER MODULE ... RENAME TO and ALTER MODULE ... OWNER TO, run *)
(* by one session against the pg_module / pg_proc / dependency catalogs.   *)
(***************************************************************************)
EXTENDS Integers, Sequences, FiniteSets, TLC

\* ---------------------------------------------------------------- bounds
MaxRoles == 2
MaxSchemas == 1
MaxNames == 2
MaxOid == 2
MaxFuncs == 1
MaxBody == 2
MaxDef == 2

Roles == 1..MaxRoles
Schemas == 1..MaxSchemas
ModNames == 1..MaxNames
FuncNames == 1..MaxFuncs
Defs == 1..MaxDef

\* ------------------------------------------------- host-engine constants
InvalidOid == 0
BOOTSTRAP_SUPERUSERID == 1
FirstNormalObjectId == 10
\* SECURITY_LOCAL_USERID_CHANGE, a bit of the security context, kept as a flag
SECURITY_LOCAL_USERID_CHANGE == "LOCAL_USERID_CHANGE"

\* no AUTHORIZATION clause / no schema part in a qualified name
NoRole == InvalidOid
NoSchema == InvalidOid

\* ------------------------------------------------------------- the state
VARIABLES
    pg_module,      \* rows [oid, modname, nspoid, modowner, modacl]
    pg_proc,        \* rows [proname, pronamespace, proowner, def]
    pg_depend,      \* dependency edges [obj, ref, deptype] (pg_depend and pg_shdepend)
    nspacl,         \* schema -> roles granted CREATE on it
    nextOid,        \* the OID counter
    userid,         \* CurrentUserId (GetUserId())
    secctx,         \* SecurityRestrictionContext, a set of flags
    searchpath,     \* the active search path, front first
    pc,             \* "idle", or "body" inside CreateModuleCommand's loop
    cur,            \* locals of the running CreateModuleCommand
    xact,           \* what transaction abort restores
    result,         \* outcome of the last statement
    sessions        \* the backends that run CREATE MODULE side by side

vars == <<pg_module, pg_proc, pg_depend, nspacl, nextOid, userid, secctx,
          searchpath, pc, cur, xact, result, sessions>>

\* ------------------------------------------------ host-engine primitives
superuser_arg(role) == role = BOOTSTRAP_SUPERUSERID

\* pg_auth_members holds one membership: role 3 is a member of role 2
is_member_of_role(member, role) ==
    \/ member = role
    \/ superuser_arg(member)
    \/ (member = 3 /\ role = 2)

\* the rows SearchSysCache2(MODULENAME, name, nsp) can return
ModuleRows(pm, name, nsp) == {m \in pm : m.modname = name /\ m.nspoid = nsp}

SearchSysCacheExists2(pm, name, nsp) == ModuleRows(pm, name, nsp) # {}

\* lookup(name, schema) -> module id | NotFound (InvalidOid)
lookup(pm, name, nsp) ==
    IF ModuleRows(pm, name, nsp) = {} THEN InvalidOid
    ELSE (CHOOSE m \in ModuleRows(pm, name, nsp) : TRUE).oid

ModuleByOid(pm, oid) == CHOOSE m \in pm : m.oid = oid

\* A qualified module name is [schema, name]; schema = NoSchema for a one-part name.
NameLists == [schema : Schemas \cup {NoSchema}, name : ModNames]

\* an explicit schema, else the creation namespace (front of the search path)
QualifiedNameWithModuleGetCreationNamespace(nl, path) ==
    IF nl.schema # NoSchema THEN nl.schema ELSE Head(path)

\* The name parts joined with "."; kept as the sequence of its parts, so the
\* result is a plain identifier exactly when the name had one part.
NameListToString(nl) ==
    IF nl.schema = NoSchema THEN <<nl.name>> ELSE <<nl.schema, nl.name>>

\* GetSysCacheOid2(MODULENAME, name, nsp) on a C string, missing_ok = true
get_module_oid_from_name(pm, nsp, str) ==
    IF \E m \in pm : m.nspoid = nsp /\ <<m.modname>> = str
    THEN (CHOOSE m \in pm : m.nspoid = nsp /\ <<m.modname>> = str).oid
    ELSE InvalidOid

\* ---- ACLs: an item is [grantee, grantor], the privilege is always CREATE
NullAcl == [isnull |-> TRUE, items |-> {}]
MakeAcl(items) == [isnull |-> FALSE, items |-> items]

acldefault(owner) == {[grantee |-> owner, grantor |-> owner]}

EffectiveAcl(m) == IF m.modacl.isnull THEN acldefault(m.modowner) ELSE m.modacl.items

\* get_user_default_acl: NULL when no default privileges are configured
get_user_default_acl(ownerId) == NullAcl

aclnewowner(items, oldOwner, newOwner) ==
    {[grantee |-> IF i.grantee = oldOwner THEN newOwner ELSE i.grantee,
      grantor |-> IF i.grantor = oldOwner THEN newOwner ELSE i.grantor] : i \in items}

pg_namespace_aclcheck(na, nsp, role) ==
    superuser_arg(role) \/ role \in na[nsp]

\* "OK", "NO_PRIV", or "UNDEFINED" when no module has that oid (the check raises)
pg_module_aclcheck(pm, modoid, role) ==
    IF superuser_arg(role) THEN "OK"
    ELSE IF ~(\E m \in pm : m.oid = modoid) THEN "UNDEFINED"
    ELSE IF \E i \in EffectiveAcl(ModuleByOid(pm, modoid)) : i.grantee = role THEN "OK"
    ELSE "NO_PRIV"

pg_module_ownercheck(pm, modoid, role) ==
    superuser_arg(role) \/ ModuleByOid(pm, modoid).modowner = role

\* ---- dependency edges
ModuleAddress(oid) == <<"pg_module", oid>>
ProcAddress(modoid, fname) == <<"pg_proc", modoid, fname>>
RoleAddress(role) == <<"pg_authid", role>>
NamespaceAddress(nsp) == <<"pg_namespace", nsp>>
Edge(obj, ref, deptype) == [obj |-> obj, ref |-> ref, deptype |-> deptype]

recordDependencyOnOwner(pd, modoid, owner) ==
    pd \cup {Edge(ModuleAddress(modoid), RoleAddress(owner), "o")}

changeDependencyOnOwner(pd, modoid, newOwner) ==
    {e \in pd : ~(e.obj = ModuleAddress(modoid) /\ e.deptype = "o")}
        \cup {Edge(ModuleAddress(modoid), RoleAddress(newOwner), "o")}

\* ---- results
\* op: the statement; status: "ok", "noop" (with a notice) or the error raised;
\* oid: the object id of the address the statement returns; at: the position of
\* the embedded statement that raised (0 when none did)
Res(op, status, oid) == [op |-> op, status |-> status, oid |-> oid, at |-> 0]

NoResult == Res("none", "ok", InvalidOid)

\* pending: the addresses of the rows written since the command counter was
\* last advanced, which catalog reads of the statement do not see yet
NoCur == [modulename |-> InvalidOid, namespaceId |-> InvalidOid, moduleId |-> InvalidOid, owner_uid |-> InvalidOid,
          saved_uid |-> InvalidOid, save_sec_context |-> {}, len |-> 0, i |-> 0,
          pending |-> {}]

\* CommandCounterIncrement: everything written so far becomes visible
CommandCounterIncrement(pending) == {}

\* catalogs, search path and identity (prevUser, prevSecContext) as they were
\* when the transaction started
NoXact == [pg_module |-> {}, pg_proc |-> {}, pg_depend |-> {},
           searchpath |-> <<>>, userid |-> InvalidOid, secctx |-> {}]

\* ---- concurrent backends
\* pc: "idle", "check" (before line 575), "insert" (before line 609), "inserted"
\* (row written, transaction open) or "done"; row: the uncommitted row, if any;
\* by: what raised DuplicateModule, ModuleCreate's "check" or the "index"
Sessions == {1, 2}

NoSession == [pc |-> "idle", modname |-> InvalidOid, nspoid |-> InvalidOid,
              owner |-> InvalidOid, row |-> {}, status |-> "none", by |-> "none"]

\* ---- embedded statements: CREATE [OR REPLACE] FUNCTION funcname ... def;
\* ok = FALSE is a statement the dispatcher rejects (a bad body, a bad type...)
FuncStmts == [funcname : FuncNames, replace : BOOLEAN, def : Defs, ok : BOOLEAN]

\* A CREATE MODULE body is a list of 0..MaxBody such statements. The list is read
\* front to back and never revisited, so the model draws its length when the
\* statement starts and each element when the loop reaches it.
BodyLengths == 0..MaxBody

ProcRows(pp, modoid, fname) ==
    {p \in pp : p.pronamespace = modoid /\ p.proname = fname}

\* The utility dispatcher on one CREATE [OR REPLACE] FUNCTION bound to module
\* modoid, run as role uid: [ok, pg_proc, pg_depend]
ProcessUtilityUsingModule(pp, pd, stmt, modoid, uid) ==
    LET old == ProcRows(pp, modoid, stmt.funcname) IN
    IF ~stmt.ok THEN [ok |-> FALSE, pg_proc |-> pp, pg_depend |-> pd]
    ELSE IF old = {} THEN
        [ok |-> TRUE,
         pg_proc |-> pp \cup {[proname |-> stmt.funcname, pronamespace |-> modoid,
                               proowner |-> uid, def |-> stmt.def]},
         pg_depend |-> pd \cup {Edge(ProcAddress(modoid, stmt.funcname),
                                     ModuleAddress(modoid), "n")}]
    ELSE IF stmt.replace /\ \A p \in old : (superuser_arg(uid) \/ p.proowner = uid) THEN
        [ok |-> TRUE,
         pg_proc |-> (pp \ old) \cup {[p EXCEPT !.def = stmt.def] : p \in old},
         pg_depend |-> pd]
    ELSE [ok |-> FALSE, pg_proc |-> pp, pg_depend |-> pd]

\* ---- routine name resolution
\* schema.module.routine: the module of that name in the schema, then its member
ResolveQualified(pm, pp, nsp, modname, fname) ==
    IF lookup(pm, modname, nsp) = InvalidOid THEN {}
    ELSE ProcRows(pp, lookup(pm, modname, nsp), fname)

\* module.routine: the first entry of the search path that has it
RECURSIVE ResolveOnPath(_, _, _, _, _)
ResolveOnPath(pm, pp, path, modname, fname) ==
    IF path = <<>> THEN {}
    ELSE LET hit == ResolveQualified(pm, pp, Head(path), modname, fname)
         IN IF hit # {} THEN hit
            ELSE ResolveOnPath(pm, pp, Tail(path), modname, fname)

\* ------------------------------------------------------------------ Init
Init ==
    /\ pg_module = {}
    /\ pg_proc = {}
    /\ pg_depend = {}
    /\ nspacl = [s \in Schemas |-> {}]
    /\ nextOid = FirstNormalObjectId + 1
    /\ userid = BOOTSTRAP_SUPERUSERID
    /\ secctx = {}
    /\ searchpath = <<1>>
    /\ pc = "idle"
    /\ cur = NoCur
    /\ xact = NoXact
    /\ result = NoResult
    /\ sessions = [s \in Sessions |-> NoSession]

\* --------------------------------------------------- pg_module.c: ModuleCreate
\* the duplicate check left out
ModuleCreateDuplicate_Never(pm, modName, nspOid) == FALSE

\* ModuleCreate's own duplicate check (line 575)
ModuleCreateDuplicate(pm, modName, nspOid) == SearchSysCacheExists2(pm, modName, nspOid)

\* the oid column left unset
ModuleCreateRow_NoOid(modOid, modName, nspOid, ownerId) ==
    [oid |-> InvalidOid, modname |-> modName, nspoid |-> nspOid, modowner |-> ownerId,
     modacl |-> get_user_default_acl(ownerId)]

\* the row ModuleCreate inserts (lines 579-609)
ModuleCreateRow(modOid, modName, nspOid, ownerId) ==
    [oid |-> modOid, modname |-> modName, nspoid |-> nspOid, modowner |-> ownerId,
     modacl |-> get_user_default_acl(ownerId)]

\* ---------------------------------------------------------- CREATE MODULE
\* the short-circuit left out
IfNotExistsSkips_Never(pm, if_not_exists, modulename, namespaceId) == FALSE

\* lines 97-99: IF NOT EXISTS and the module is already there
IfNotExistsSkips(pm, if_not_exists, modulename, namespaceId) ==
    if_not_exists /\ SearchSysCacheExists2(pm, modulename, namespaceId)

\* the short-circuit moved in front of the permission check
CreateGate_SkipFirst(aclok, skips) ==
    IF skips THEN "noop"
    ELSE IF ~aclok THEN "InsufficientPrivilege"
    ELSE "create"

\* lines 85-106: the schema's ACL check (on GetUserId(), the invoker), and
\* only then the IF NOT EXISTS short-circuit
CreateGate(aclok, skips) ==
    IF ~aclok THEN "InsufficientPrivilege"
    ELSE IF skips THEN "noop"
    ELSE "create"

\* the switch left out: the body runs as the invoker
BodyUserId_Invoker(saved_uid, owner_uid) == saved_uid

\* lines 117-119: the user id the body runs under (the two are equal when
\* SetUserIdAndSecContext is not called)
BodyUserId(saved_uid, owner_uid) == owner_uid

\* line 125: the counter is advanced after ModuleCreate
AfterModuleCreate(pending) == CommandCounterIncrement(pending)

\* lines 72-153: everything up to the loop over the embedded statements
CreateModuleCommand_Begin(nl, authrole, if_not_exists, len) ==
    LET saved_uid == userid
        save_sec_context == secctx
        owner_uid == IF authrole # NoRole THEN authrole ELSE saved_uid
        namespaceId == QualifiedNameWithModuleGetCreationNamespace(nl, searchpath)
        modulename == nl.name
        R(status, oid) == Res("create", status, oid)
        gate == CreateGate(pg_namespace_aclcheck(nspacl, namespaceId, userid),
                           IfNotExistsSkips(pg_module, if_not_exists, modulename,
                                            namespaceId))
    IN
    /\ pc = "idle"
    /\ IF gate = "InsufficientPrivilege" THEN
           /\ result' = R("InsufficientPrivilege", InvalidOid)
           /\ UNCHANGED <<sessions, pg_module, pg_proc, pg_depend, nspacl, nextOid, userid,
                          secctx, searchpath, pc, cur, xact>>
       ELSE IF gate = "noop" THEN
           /\ result' = R("noop", InvalidOid)
           /\ UNCHANGED <<sessions, pg_module, pg_proc, pg_depend, nspacl, nextOid, userid,
                          secctx, searchpath, pc, cur, xact>>
       ELSE IF ModuleCreateDuplicate(pg_module, modulename, namespaceId) THEN
           \* ModuleCreate raises after the identity switch; abort undoes the switch
           /\ result' = R("DuplicateModule", InvalidOid)
           /\ UNCHANGED <<sessions, pg_module, pg_proc, pg_depend, nspacl, nextOid, userid,
                          secctx, searchpath, pc, cur, xact>>
       ELSE
           /\ nextOid <= FirstNormalObjectId + MaxOid
           /\ xact' = [pg_module |-> pg_module, pg_proc |-> pg_proc,
                       pg_depend |-> pg_depend, searchpath |-> searchpath,
                       userid |-> userid, secctx |-> secctx]
           /\ userid' = BodyUserId(saved_uid, owner_uid)
           /\ secctx' = IF saved_uid # owner_uid
                        THEN save_sec_context \cup {SECURITY_LOCAL_USERID_CHANGE}
                        ELSE save_sec_context
           /\ pg_module' = pg_module \cup
                  {ModuleCreateRow(nextOid, modulename, namespaceId, owner_uid)}
           /\ pg_depend' = recordDependencyOnOwner(pg_depend, nextOid, owner_uid)
           /\ nextOid' = nextOid + 1
           /\ searchpath' = <<nextOid>> \o searchpath
           /\ cur' = [modulename |-> modulename, namespaceId |-> namespaceId,
                      moduleId |-> nextOid,
                      owner_uid |-> owner_uid, saved_uid |-> saved_uid,
                      save_sec_context |-> save_sec_context, len |-> len, i |-> 1,
                      pending |-> AfterModuleCreate({ModuleAddress(nextOid)})]
           /\ pc' = "body"
           /\ result' = R("running", nextOid)
           /\ UNCHANGED <<sessions, pg_proc, nspacl>>

\* an abort that undoes the catalog writes and leaves the backend's search
\* path and identity as the failing statement had set them
AbortTransaction_Leaks ==
    /\ pg_module' = xact.pg_module
    /\ pg_proc' = xact.pg_proc
    /\ pg_depend' = xact.pg_depend
    /\ UNCHANGED <<userid, secctx, searchpath>>
    /\ pc' = "idle"
    /\ cur' = NoCur
    /\ xact' = NoXact

\* transaction abort out of the body: catalog writes undone, the pushed search
\* path popped, the user id and security context of the statement's start back
AbortTransaction ==
    /\ pg_module' = xact.pg_module
    /\ pg_proc' = xact.pg_proc
    /\ pg_depend' = xact.pg_depend
    /\ userid' = cur.saved_uid
    /\ secctx' = cur.save_sec_context
    /\ searchpath' = Tail(searchpath)
    /\ pc' = "idle"
    /\ cur' = NoCur
    /\ xact' = NoXact

\* the error of an embedded statement caught and the loop carried on
ErrorPropagates_Swallowed == FALSE

\* does an error of embedded statement i leave CreateModuleCommand? (no PG_TRY)
ErrorPropagates == TRUE

\* the routine bound to the parent schema, as CREATE FUNCTION outside a module is
CreationNamespace_Schema(namespaceId, moduleId) == namespaceId

\* lines 181-182 and 292-293: the dispatcher is handed the schema and the
\* module; the routine it creates takes the module as its namespace
CreationNamespace(namespaceId, moduleId) == moduleId

\* the counter not advanced: the statement's rows stay unseen
AfterSubStatement_NoIncrement(pending) == pending

\* line 184: the counter is advanced after each embedded statement
AfterSubStatement(pending) == CommandCounterIncrement(pending)

\* the routines catalog reads do not see yet
Unseen(pp, pending) == {p \in pp : ProcAddress(p.pronamespace, p.proname) \in pending}

\* lines 161-185: one turn of the loop. The dispatcher works on the rows that
\* are visible, and cannot bind the routine to a module row it does not see.
CreateModuleCommand_ExecStmt(stmt) ==
    /\ pc = "body"
    /\ cur.i <= cur.len
    /\ LET seen == pg_proc \ Unseen(pg_proc, cur.pending)
           ns == CreationNamespace(cur.namespaceId, cur.moduleId)
           run == ProcessUtilityUsingModule(seen, pg_depend, stmt, ns, userid)
           out == IF ModuleAddress(cur.moduleId) \in cur.pending
                  THEN [run EXCEPT !.ok = FALSE] ELSE run
       IN IF out.ok \/ ~ErrorPropagates THEN
              /\ pg_proc' = out.pg_proc \cup Unseen(pg_proc, cur.pending)
              /\ pg_depend' = out.pg_depend
              /\ cur' = [cur EXCEPT !.i = cur.i + 1,
                                    !.pending = AfterSubStatement(
                                        cur.pending \cup {ProcAddress(ns, stmt.funcname)})]
              /\ UNCHANGED <<sessions, pg_module, nspacl, nextOid, userid, secctx, searchpath,
                             pc, xact, result>>
          ELSE
              /\ AbortTransaction
              /\ result' = [Res("create", "SubStatementFailed", InvalidOid)
                                EXCEPT !.at = cur.i]
              /\ UNCHANGED <<sessions, nspacl, nextOid>>

\* PopOverrideSearchPath: the entry pushed last is dropped
PopOverrideSearchPath(path) == Tail(path)

\* the reset left out: the identity of the body stays
ResetUserId_Skipped(saved_uid, current) == current

\* line 191: the user id handed to SetUserIdAndSecContext after the loop
ResetUserId(saved_uid, current) == saved_uid

\* lines 187-204: after the loop
CreateModuleCommand_Finish ==
    /\ pc = "body"
    /\ cur.i > cur.len
    /\ searchpath' = PopOverrideSearchPath(searchpath)
    /\ userid' = ResetUserId(cur.saved_uid, userid)
    /\ secctx' = cur.save_sec_context
    /\ pg_depend' = recordDependencyOnOwner(
                        pg_depend \cup {Edge(ModuleAddress(cur.moduleId),
                                             ModuleAddress(cur.namespaceId), "n")},
                        cur.moduleId, cur.owner_uid)
    /\ pc' = "idle"
    /\ cur' = NoCur
    /\ xact' = NoXact
    /\ result' = [result EXCEPT !.status = "ok"]
    /\ UNCHANGED <<sessions, pg_module, pg_proc, nspacl, nextOid>>

\* --------------------------------------------------- session and privileges
SetSessionAuthorization(role) ==
    /\ pc = "idle"
    /\ userid # role
    /\ userid' = role
    /\ result' = NoResult
    /\ UNCHANGED <<sessions, pg_module, pg_proc, pg_depend, nspacl, nextOid, secctx,
                   searchpath, pc, cur, xact>>

\* The roles privileges are granted to and revoked from: a superuser passes
\* every privilege check whatever the ACL says, so only the others are drawn.
Grantees == {r \in Roles : ~superuser_arg(r)}

\* GRANT / REVOKE CREATE ON SCHEMA, run by a superuser
GrantSchemaCreate(nsp, role) ==
    /\ pc = "idle"
    /\ superuser_arg(userid)
    /\ role \notin nspacl[nsp]
    /\ nspacl' = [nspacl EXCEPT ![nsp] = @ \cup {role}]
    /\ result' = NoResult
    /\ UNCHANGED <<sessions, pg_module, pg_proc, pg_depend, nextOid, userid, secctx,
                   searchpath, pc, cur, xact>>

RevokeSchemaCreate(nsp, role) ==
    /\ pc = "idle"
    /\ superuser_arg(userid)
    /\ role \in nspacl[nsp]
    /\ nspacl' = [nspacl EXCEPT ![nsp] = @ \ {role}]
    /\ result' = NoResult
    /\ UNCHANGED <<sessions, pg_module, pg_proc, pg_depend, nextOid, userid, secctx,
                   searchpath, pc, cur, xact>>

\* GRANT / REVOKE ON MODULE m CREATE, run by the module's owner or a superuser;
\* the grantor recorded is the owner
GrantModuleCreate(m, role) ==
    /\ pc = "idle"
    /\ m \in pg_module
    /\ pg_module_ownercheck(pg_module, m.oid, userid)
    /\ [grantee |-> role, grantor |-> m.modowner] \notin EffectiveAcl(m)
    /\ pg_module' = (pg_module \ {m}) \cup
           {[m EXCEPT !.modacl = MakeAcl(EffectiveAcl(m) \cup
                                    {[grantee |-> role, grantor |-> m.modowner]})]}
    /\ result' = NoResult
    /\ UNCHANGED <<sessions, pg_proc, pg_depend, nspacl, nextOid, userid, secctx,
                   searchpath, pc, cur, xact>>

RevokeModuleCreate(m, role) ==
    /\ pc = "idle"
    /\ m \in pg_module
    /\ pg_module_ownercheck(pg_module, m.oid, userid)
    /\ \E i \in EffectiveAcl(m) : i.grantee = role
    /\ pg_module' = (pg_module \ {m}) \cup
           {[m EXCEPT !.modacl = MakeAcl({i \in EffectiveAcl(m) : i.grantee # role})]}
    /\ result' = NoResult
    /\ UNCHANGED <<sessions, pg_proc, pg_depend, nspacl, nextOid, userid, secctx,
                   searchpath, pc, cur, xact>>

\* a statement that raised before it wrote anything
Raise(res) ==
    /\ result' = res
    /\ UNCHANGED <<sessions, pg_module, pg_proc, pg_depend, nspacl, nextOid, userid, secctx,
                   searchpath, pc, cur, xact>>

\* ------------------------------- ALTER MODULE ... CREATE [OR REPLACE] FUNCTION
\* line 238: the module whose ACL is checked
AclCheckedModule(pm, nsp, nl) == get_module_oid_from_name(pm, nsp, NameListToString(nl))

\* the test of the routine name left out
RejectsRoutineName_Never(qualified) == FALSE

\* line 259: list_length(fstmt->funcname) > 1
RejectsRoutineName(qualified) == qualified

\* qualified: the routine name of the statement has more than one part
AlterModuleCreateReplaceFunction(nl, fstmt, qualified) ==
    LET namespaceOid == QualifiedNameWithModuleGetCreationNamespace(nl, searchpath)
        moduleName == nl.name
        aclOid == AclCheckedModule(pg_module, namespaceOid, nl)
        aclresult == pg_module_aclcheck(pg_module, aclOid, userid)
        tup == ModuleRows(pg_module, moduleName, namespaceOid)
        moduleOid == lookup(pg_module, moduleName, namespaceOid)
        R(status) == Res("alter_create", status,
                         IF status = "ok" THEN moduleOid ELSE InvalidOid)
        out == ProcessUtilityUsingModule(pg_proc, pg_depend, fstmt,
                          CreationNamespace(namespaceOid, moduleOid), userid)
    IN
    /\ pc = "idle"
    /\ IF ~pg_namespace_aclcheck(nspacl, namespaceOid, userid) THEN
           Raise(R("InsufficientPrivilege"))
       ELSE IF aclresult = "UNDEFINED" THEN Raise(R("UndefinedObject"))
       ELSE IF aclresult # "OK" THEN Raise(R("InsufficientPrivilege"))
       ELSE IF tup = {} THEN Raise(R("InternalError"))
       ELSE IF RejectsRoutineName(qualified) THEN Raise(R("InvalidModuleDefinition"))
       ELSE IF ~out.ok THEN Raise(R("SubStatementFailed"))
       ELSE
           /\ pg_proc' = out.pg_proc
           /\ pg_depend' = out.pg_depend
           /\ result' = R("ok")
           /\ UNCHANGED <<sessions, pg_module, nspacl, nextOid, userid, secctx, searchpath,
                          pc, cur, xact>>

\* ------------------------------------------- ALTER MODULE ... ALTER FUNCTION
\* the check the comment above line 338 announces: CREATE on the module
AlterFunctionAllowed_CreatePriv(pm, modoid, role) ==
    pg_module_aclcheck(pm, modoid, role) = "OK"

\* line 338: the check that guards AlterFunction
AlterFunctionAllowed(pm, modoid, role) == pg_module_ownercheck(pm, modoid, role)

\* AlterFunction on member funcname of module modoid, setting its definition
AlterFunction(pp, modoid, funcname, def, uid) ==
    LET old == ProcRows(pp, modoid, funcname) IN
    IF old = {} THEN [status |-> "UndefinedObject", pg_proc |-> pp]
    ELSE IF \E p \in old : ~(superuser_arg(uid) \/ p.proowner = uid)
    THEN [status |-> "NotOwner", pg_proc |-> pp]
    ELSE [status |-> "ok",
          pg_proc |-> (pp \ old) \cup {[p EXCEPT !.def = def] : p \in old}]

\* `address` is returned without ever being set (line 349): any value
AlterModuleAlterFunction(nl, funcname, def, address) ==
    LET namespaceId == QualifiedNameWithModuleGetCreationNamespace(nl, searchpath)
        moduleName == nl.name
        tup == ModuleRows(pg_module, moduleName, namespaceId)
        moduleOid == lookup(pg_module, moduleName, namespaceId)
        R(status, oid) == Res("alter_alter", status, oid)
        out == AlterFunction(pg_proc, moduleOid, funcname, def, userid)
    IN
    /\ pc = "idle"
    /\ IF tup = {} THEN Raise(R("InternalError", InvalidOid))
       ELSE IF ~AlterFunctionAllowed(pg_module, moduleOid, userid) THEN
           Raise(R("NotOwner", InvalidOid))
       ELSE IF out.status # "ok" THEN Raise(R("SubStatementFailed", InvalidOid))
       ELSE
           /\ pg_proc' = out.pg_proc
           /\ result' = R("ok", address)
           /\ UNCHANGED <<sessions, pg_module, pg_depend, nspacl, nextOid, userid, secctx,
                          searchpath, pc, cur, xact>>

\* ------------------------------------------------ ALTER MODULE ... RENAME TO
\* the check for the new name left out
RenameDuplicate_Never(pm, newName, nsp) == FALSE

\* lines 377-382: a module of the new name is already there
RenameDuplicate(pm, newName, nsp) == SearchSysCacheExists2(pm, newName, nsp)

\* line 393
RenameAllowed(pm, modOid, role) ==
    superuser_arg(role) \/ pg_module_ownercheck(pm, modOid, role)

\* the renamed tuple inserted as a new row, the old one left in place
RenameWrite_Insert(pm, tup, newName) ==
    pm \cup {[m EXCEPT !.modname = newName] : m \in tup}

\* lines 397-399: namestrcpy into the copied tuple, CatalogTupleUpdate in place
RenameWrite(pm, tup, newName) ==
    (pm \ tup) \cup {[m EXCEPT !.modname = newName] : m \in tup}

AlterModuleRename(nl, newName) ==
    LET namespaceId == QualifiedNameWithModuleGetCreationNamespace(nl, searchpath)
        moduleName == nl.name
        tup == ModuleRows(pg_module, moduleName, namespaceId)
        modOid == lookup(pg_module, moduleName, namespaceId)
        R(status) == Res("rename", status, IF status = "ok" THEN modOid ELSE InvalidOid)
    IN
    /\ pc = "idle"
    /\ IF RenameDuplicate(pg_module, newName, namespaceId) THEN
           Raise(R("DuplicateModule"))
       ELSE IF tup = {} THEN Raise(R("InternalError"))
       ELSE IF ~RenameAllowed(pg_module, modOid, userid) THEN Raise(R("NotOwner"))
       ELSE
           /\ pg_module' = RenameWrite(pg_module, tup, newName)
           /\ result' = R("ok")
           /\ UNCHANGED <<sessions, pg_proc, pg_depend, nspacl, nextOid, userid, secctx,
                          searchpath, pc, cur, xact>>

\* ------------------------------------------------- ALTER MODULE ... OWNER TO
\* lines 483-504: the changed tuple is formed by heap_modify_tuple and freed;
\* nothing is written to pg_module
AlterModuleOwner_StoredRows(pm, m, newOwnerId) == pm

\* the early exit left out: the owner is always taken to differ
SameOwner_Never(m, newOwnerId) == FALSE

\* line 465: the new owner is the owner the tuple already has
SameOwner(m, newOwnerId) == m.modowner = newOwnerId

\* lines 465-509, on tuple m: [status, pg_module, pg_depend]
AlterModuleOwner_internal(pm, pd, m, newOwnerId, role) ==
    IF SameOwner(m, newOwnerId) THEN [status |-> "ok", pg_module |-> pm, pg_depend |-> pd]
    ELSE IF ~(superuser_arg(role) \/ pg_module_ownercheck(pm, m.oid, role))
    THEN [status |-> "NotOwner", pg_module |-> pm, pg_depend |-> pd]
    ELSE IF ~is_member_of_role(role, newOwnerId)
    THEN [status |-> "InsufficientPrivilege", pg_module |-> pm, pg_depend |-> pd]
    ELSE [status |-> "ok",
          pg_module |-> AlterModuleOwner_StoredRows(pm, m, newOwnerId),
          pg_depend |-> changeDependencyOnOwner(pd, m.oid, newOwnerId)]

\* Line 437 hands the syscache the List pointer `name` where it expects the C
\* string moduleName: the key is whatever bytes the List header holds, read as
\* a name. key is that name: NoKey when it names no module of the schema.
NoKey == InvalidOid
LookupKeys == ModNames \cup {NoKey}

AlterModuleOwner(nl, newOwnerId, key) ==
    LET namespaceId == QualifiedNameWithModuleGetCreationNamespace(nl, searchpath)
        tup == ModuleRows(pg_module, key, namespaceId)
        m == CHOOSE x \in tup : TRUE
        out == AlterModuleOwner_internal(pg_module, pg_depend, m, newOwnerId, userid)
        R(status, oid) == Res("set_owner", status, IF status = "ok" THEN oid ELSE InvalidOid)
    IN
    /\ pc = "idle"
    /\ IF tup = {} THEN Raise(R("InternalError", InvalidOid))
       ELSE
           /\ pg_module' = out.pg_module
           /\ pg_depend' = out.pg_depend
           /\ result' = R(out.status, m.oid)
           /\ UNCHANGED <<sessions, pg_proc, nspacl, nextOid, userid, secctx, searchpath,
                          pc, cur, xact>>

\* ------------------------------------------------- DROP MODULE [CASCADE]
\* the objects the dependency catalog records as depending on module modOid
Dependents(pd, modOid) == {e.obj : e \in {d \in pd : d.ref = ModuleAddress(modOid)}}

\* the restriction left out: a plain DROP removes dependents as CASCADE does
DropRestricted_Never(dependents, cascade) == FALSE

\* DROP without CASCADE is refused while anything depends on the module
DropRestricted(dependents, cascade) == dependents # {} /\ ~cascade

\* the result's `at` is the number of members the cascade removed
DropModule(nl, cascade) ==
    LET namespaceId == QualifiedNameWithModuleGetCreationNamespace(nl, searchpath)
        tup == ModuleRows(pg_module, nl.name, namespaceId)
        modOid == lookup(pg_module, nl.name, namespaceId)
        dependents == Dependents(pg_depend, modOid)
        members == {p \in pg_proc : ProcAddress(p.pronamespace, p.proname) \in dependents}
        R(status) == Res("drop", status, InvalidOid)
    IN
    /\ pc = "idle"
    /\ IF tup = {} THEN Raise(R("UndefinedObject"))
       ELSE IF ~pg_module_ownercheck(pg_module, modOid, userid) THEN Raise(R("NotOwner"))
       ELSE IF DropRestricted(dependents, cascade) THEN Raise(R("DependencyViolation"))
       ELSE
           /\ pg_module' = pg_module \ tup
           /\ pg_proc' = pg_proc \ members
           /\ pg_depend' = {e \in pg_depend :
                  /\ e.obj \notin dependents \cup {ModuleAddress(modOid)}
                  /\ e.ref # ModuleAddress(modOid)}
           /\ result' = [R("ok") EXCEPT !.at = Cardinality(members)]
           /\ UNCHANGED <<sessions, nspacl, nextOid, userid, secctx, searchpath, pc, cur, xact>>

\* ------------------------------------- CREATE MODULE in concurrent backends
\* Each backend runs one CREATE MODULE (no IF NOT EXISTS, empty body) in a
\* transaction of its own; pg_module holds the committed rows, a backend's
\* uncommitted row is in its `row`.

\* the rows backend s sees: the committed ones and its own
VisibleRows(s) == pg_module \cup sessions[s].row

\* the uniqueness enforcement left out
UniqueIndexConflict_Never(rows, modName, nspOid) == FALSE

\* the unique index on (modname, nspoid): a row of that key is among rows
UniqueIndexConflict(rows, modName, nspOid) ==
    \E m \in rows : m.modname = modName /\ m.nspoid = nspOid

\* the uncommitted rows of the backends other than s
InProgressRows(s) == UNION {sessions[t].row : t \in Sessions \ {s}}

\* lines 72-87 and 117-122: up to the call of ModuleCreate
Session_Begin(s, nl, role, authrole) ==
    LET owner_uid == IF authrole # NoRole THEN authrole ELSE role
        namespaceId == QualifiedNameWithModuleGetCreationNamespace(nl, searchpath)
    IN
    /\ pc = "idle"
    /\ sessions[s].pc = "idle"
    /\ sessions' = [sessions EXCEPT ![s] =
           IF ~pg_namespace_aclcheck(nspacl, namespaceId, role)
           THEN [@ EXCEPT !.pc = "done", !.status = "InsufficientPrivilege"]
           ELSE [@ EXCEPT !.pc = "check", !.modname = nl.name,
                          !.nspoid = namespaceId, !.owner = owner_uid]]
    /\ UNCHANGED <<pg_module, pg_proc, pg_depend, nspacl, nextOid, userid, secctx,
                   searchpath, pc, cur, xact, result>>

\* line 575: ModuleCreate's check, on the rows the backend sees
Session_ModuleCreateCheck(s) ==
    LET me == sessions[s] IN
    /\ me.pc = "check"
    /\ sessions' = [sessions EXCEPT ![s] =
           IF ModuleCreateDuplicate(VisibleRows(s), me.modname, me.nspoid)
           THEN [@ EXCEPT !.pc = "done", !.status = "DuplicateModule",
                          !.by = "check"]
           ELSE [@ EXCEPT !.pc = "insert"]]
    /\ UNCHANGED <<pg_module, pg_proc, pg_depend, nspacl, nextOid, userid, secctx,
                   searchpath, pc, cur, xact, result>>

\* lines 592-609: the row is formed and inserted. The index insertion waits
\* while another open transaction holds a row of the key, and raises when a
\* committed row has it.
Session_ModuleCreateInsert(s) ==
    LET me == sessions[s] IN
    /\ me.pc = "insert"
    /\ nextOid <= FirstNormalObjectId + MaxOid
    /\ ~UniqueIndexConflict(InProgressRows(s), me.modname, me.nspoid)
    /\ IF UniqueIndexConflict(pg_module, me.modname, me.nspoid) THEN
           /\ sessions' = [sessions EXCEPT ![s] =
                  [@ EXCEPT !.pc = "done", !.status = "DuplicateModule",
                            !.by = "index"]]
           /\ UNCHANGED nextOid
       ELSE
           /\ sessions' = [sessions EXCEPT ![s] =
                  [@ EXCEPT !.pc = "inserted",
                            !.row = {ModuleCreateRow(nextOid, me.modname,
                                                     me.nspoid, me.owner)}]]
           /\ nextOid' = nextOid + 1
    /\ UNCHANGED <<pg_module, pg_proc, pg_depend, nspacl, userid, secctx,
                   searchpath, pc, cur, xact, result>>

\* lines 187-204 and the commit of the transaction
Session_Commit(s) ==
    LET me == sessions[s] IN
    /\ me.pc = "inserted"
    /\ pg_module' = pg_module \cup me.row
    /\ pg_depend' = pg_depend \cup UNION {
           {Edge(ModuleAddress(m.oid), ModuleAddress(m.nspoid), "n"),
            Edge(ModuleAddress(m.oid), RoleAddress(m.modowner), "o")} : m \in me.row}
    /\ sessions' = [sessions EXCEPT ![s] =
           [@ EXCEPT !.pc = "done", !.status = "ok", !.row = {}]]
    /\ UNCHANGED <<pg_proc, nspacl, nextOid, userid, secctx, searchpath, pc, cur,
                   xact, result>>

\* CREATE MODULE statements naming a module of `names`, their embedded
\* statements drawn from `stmts`
CreateModule(names, stmts) ==
    \/ \E nl \in names, authrole \in Roles \cup {NoRole}, ine \in BOOLEAN,
          len \in BodyLengths : CreateModuleCommand_Begin(nl, authrole, ine, len)
    \/ \E stmt \in stmts : CreateModuleCommand_ExecStmt(stmt)
    \/ CreateModuleCommand_Finish

SchemaPrivileges ==
    \/ \E role \in Roles : SetSessionAuthorization(role)
    \/ \E nsp \in Schemas, role \in Grantees : GrantSchemaCreate(nsp, role)
    \/ \E nsp \in Schemas, role \in Grantees : RevokeSchemaCreate(nsp, role)

ModulePrivileges ==
    \/ \E m \in pg_module, role \in Grantees : GrantModuleCreate(m, role)
    \/ \E m \in pg_module, role \in Grantees : RevokeModuleCreate(m, role)

AlterMembers ==
    \/ \E nl \in NameLists, fstmt \in FuncStmts, qualified \in BOOLEAN :
          AlterModuleCreateReplaceFunction(nl, fstmt, qualified)
    \/ \E nl \in NameLists, funcname \in FuncNames, def \in Defs,
          address \in {InvalidOid} \cup {m.oid : m \in pg_module} :
          AlterModuleAlterFunction(nl, funcname, def, address)

AlterModule ==
    \/ \E nl \in NameLists, newName \in ModNames : AlterModuleRename(nl, newName)
    \/ \E nl \in NameLists, newOwnerId \in Roles, key \in LookupKeys :
          AlterModuleOwner(nl, newOwnerId, key)
    \/ \E nl \in NameLists, cascade \in BOOLEAN : DropModule(nl, cascade)

\* embedded statements that are well formed: CREATE FUNCTION f ... (first definition)
PlainStmts == {st \in FuncStmts : st.ok /\ ~st.replace /\ st.def = 1}

\* module names of one part, and the first of them
FirstName == CHOOSE n \in ModNames : \A k \in ModNames : n <= k
OneModule == {nl \in NameLists : nl.name = FirstName}

\* every statement, every input
Next ==
    \/ CreateModule(NameLists, FuncStmts)
    \/ SchemaPrivileges
    \/ ModulePrivileges
    \/ AlterMembers
    \/ AlterModule

Spec == Init /\ [][Next]_vars

\* CREATE MODULE with every kind of body, under changing schema privileges
NextCreate == CreateModule(NameLists, FuncStmts) \/ SchemaPrivileges

SpecCreate == Init /\ [][NextCreate]_vars

\* the module rows: CREATE, RENAME TO, OWNER TO and DROP under changing privileges
NextCatalog ==
    \/ CreateModule(NameLists, PlainStmts)
    \/ SchemaPrivileges
    \/ ModulePrivileges
    \/ AlterModule

SpecCatalog == Init /\ [][NextCatalog]_vars

\* RENAME TO alone, on modules with members and granted privileges
NextRename ==
    \/ CreateModule(NameLists, PlainStmts)
    \/ SchemaPrivileges
    \/ ModulePrivileges
    \/ \E nl \in NameLists, newName \in ModNames : AlterModuleRename(nl, newName)

SpecRename == Init /\ [][NextRename]_vars

\* the members of one module: ALTER MODULE ... CREATE / ALTER FUNCTION under
\* changing privileges
NextMembers ==
    \/ CreateModule(OneModule, PlainStmts)
    \/ SchemaPrivileges
    \/ ModulePrivileges
    \/ AlterMembers

SpecMembers == Init /\ [][NextMembers]_vars

\* every ALTER MODULE variant and DROP MODULE, on modules created under the
\* first name
NextAlter ==
    \/ CreateModule(OneModule, PlainStmts)
    \/ SchemaPrivileges
    \/ AlterMembers
    \/ AlterModule

SpecAlter == Init /\ [][NextAlter]_vars

\* two backends, one CREATE MODULE each, under changing schema privileges
NextConcurrent ==
    \/ \E s \in Sessions, nl \in NameLists, role \in Roles, authrole \in Roles \cup {NoRole} :
          Session_Begin(s, nl, role, authrole)
    \/ \E s \in Sessions : Session_ModuleCreateCheck(s)
    \/ \E s \in Sessions : Session_ModuleCreateInsert(s)
    \/ \E s \in Sessions : Session_Commit(s)
    \/ \E nsp \in Schemas, role \in Grantees : GrantSchemaCreate(nsp, role)

SpecConcurrent == Init /\ [][NextConcurrent]_vars

\* ======================================================================
\* The claims
\* ======================================================================
CreateInputs == NameLists \X (Roles \cup {NoRole}) \X BodyLengths

\* the namespace a statement on the module name nl addresses
Nsp(nl) == QualifiedNameWithModuleGetCreationNamespace(nl, searchpath)

\* the module the name nl denotes, before the step
Exists(nl) == SearchSysCacheExists2(pg_module, nl.name, Nsp(nl))
Row(nl) == ModuleByOid(pg_module, lookup(pg_module, nl.name, Nsp(nl)))

\* C1: a CREATE MODULE that completes returns the id that lookup(N, S) then
\* gives; a further CREATE MODULE N in S without IF NOT EXISTS, by a role that
\* may create in S, raises DuplicateModule, and after it lookup(N, S) is still
\* the first id and the first module's row (owner, ACL) is as it was.
C1_CreateLookupDuplicate ==
    [][ /\ CreateModuleCommand_Finish =>
              /\ result'.status = "ok"
              /\ result'.oid # InvalidOid
              /\ lookup(pg_module', cur.modulename, cur.namespaceId) = result'.oid
        /\ (pc = "idle" /\ result'.op = "create") => \A in \in CreateInputs :
              ( /\ CreateModuleCommand_Begin(in[1], in[2], FALSE, in[3])
                /\ Exists(in[1])
                /\ pg_namespace_aclcheck(nspacl, Nsp(in[1]), userid) )
              => /\ result'.status = "DuplicateModule"
                 /\ lookup(pg_module', in[1].name, Nsp(in[1]))
                        = lookup(pg_module, in[1].name, Nsp(in[1]))
                 /\ Row(in[1]) \in pg_module'
                 /\ pg_module' = pg_module
      ]_vars

\* C1 witness: a second CREATE MODULE of an existing name has raised DuplicateModule
C1_Witness ==
    /\ result.op = "create"
    /\ result.status = "DuplicateModule"
    /\ pg_module # {}

\* C2: CREATE MODULE IF NOT EXISTS N in S when N exists in S, by a role that may
\* create in S, returns no address with a notice ("noop"); whoever runs it, it
\* changes no module row, no ACL, no member, no dependency edge, neither the
\* search path nor the effective identity, and enters no embedded statement.
C2_IfNotExistsNoOp ==
    [][ (pc = "idle" /\ result'.op = "create") => \A in \in CreateInputs :
              (CreateModuleCommand_Begin(in[1], in[2], TRUE, in[3]) /\ Exists(in[1]))
              => /\ pg_namespace_aclcheck(nspacl, Nsp(in[1]), userid)
                    => (result'.status = "noop" /\ result'.oid = InvalidOid)
                 /\ UNCHANGED <<pg_module, pg_proc, pg_depend, nspacl, nextOid>>
                 /\ UNCHANGED <<userid, secctx, searchpath>>
                 /\ pc' = "idle"
                 /\ cur' = NoCur
      ]_vars

\* C2 witness: an IF NOT EXISTS on an existing module has been skipped
C2_Witness ==
    /\ result.op = "create"
    /\ result.status = "noop"
    /\ pg_module # {}

\* C3: no two module rows have the same (parent schema, name).
C3_UniqueSchemaName ==
    \A m1 \in pg_module, m2 \in pg_module :
        (m1.nspoid = m2.nspoid /\ m1.modname = m2.modname) => m1 = m2

\* C3 witness: two modules share a schema, and a statement that asked for a
\* name one of them holds has just been refused
C3_Witness ==
    /\ result.status = "DuplicateModule"
    /\ \E m1 \in pg_module, m2 \in pg_module : m1 # m2 /\ m1.nspoid = m2.nspoid

\* C4: when embedded statement i of a CREATE MODULE raises, the statement ends
\* there, and the module row, the members made by statements 1..i-1 and every
\* dependency edge of theirs are gone: the catalog is the one the statement
\* started from.
C4_BodyAllOrNothing ==
    [][ pc = "body" => \A stmt \in FuncStmts :
              ( /\ CreateModuleCommand_ExecStmt(stmt)
                /\ ~ProcessUtilityUsingModule(pg_proc, pg_depend, stmt,
                                              cur.moduleId, userid).ok )
              => /\ pc' = "idle"
                 /\ result'.status = "SubStatementFailed"
                 /\ result'.at = cur.i
                 /\ pg_module' = xact.pg_module
                 /\ pg_proc' = xact.pg_proc
                 /\ pg_depend' = xact.pg_depend
                 /\ \A m \in pg_module' : m.oid # cur.moduleId
                 /\ \A p \in pg_proc' : p.pronamespace # cur.moduleId
                 /\ \A e \in pg_depend' : /\ e.obj # ModuleAddress(cur.moduleId)
                                          /\ e.ref # ModuleAddress(cur.moduleId)
      ]_vars

\* C4 witness: a CREATE MODULE was undone by its second embedded statement,
\* after the first had made a member
C4_Witness ==
    /\ result.op = "create"
    /\ result.status = "SubStatementFailed"
    /\ result.at = 2

AlterCreateInputs == NameLists \X FuncStmts \X BOOLEAN

\* both privileges ALTER MODULE ... CREATE FUNCTION asks for, on module row m
HoldsBothCreate(m, role) ==
    /\ pg_namespace_aclcheck(nspacl, m.nspoid, role)
    /\ pg_module_aclcheck(pg_module, m.oid, role) = "OK"

\* C5: ALTER MODULE M CREATE [OR REPLACE] FUNCTION by role R passes the
\* privilege gate exactly when R holds CREATE on M's schema and CREATE on M;
\* when one is missing it raises InsufficientPrivilege and no member is added
\* or replaced.
C5_CreateNeedsBothPrivileges ==
    [][ (pc = "idle" /\ result'.op = "alter_create") => \A in \in AlterCreateInputs :
              (AlterModuleCreateReplaceFunction(in[1], in[2], in[3]) /\ Exists(in[1]))
              => IF HoldsBothCreate(Row(in[1]), userid)
                 THEN result'.status \in {"ok", "InvalidModuleDefinition",
                                           "SubStatementFailed"}
                 ELSE result'.status = "InsufficientPrivilege" /\ pg_proc' = pg_proc
      ]_vars

AlterAlterInputs == NameLists \X FuncNames \X Defs

RenameInputs == NameLists \X ModNames
OwnerInputs == NameLists \X Roles \X LookupKeys

NotOwnerNorSuperuser(m, role) == m.modowner # role /\ ~superuser_arg(role)

\* C7: RENAME TO and OWNER TO (to another owner) on an existing module by a
\* role that neither owns it nor is a superuser raise NotOwner, whatever the
\* new name or owner, and leave the module rows and dependency edges alone.
C7_NonOwnerGetsNotOwner ==
    [][ (pc = "idle" /\ result'.op \in {"rename", "set_owner"}) =>
          /\ \A in \in RenameInputs :
                ( /\ AlterModuleRename(in[1], in[2])
                  /\ Exists(in[1])
                  /\ NotOwnerNorSuperuser(Row(in[1]), userid) )
                => /\ result'.status = "NotOwner"
                   /\ UNCHANGED <<pg_module, pg_depend>>
          /\ \A in \in OwnerInputs :
                ( /\ AlterModuleOwner(in[1], in[2], in[3])
                  /\ Exists(in[1])
                  /\ Row(in[1]).modowner # in[2]
                  /\ NotOwnerNorSuperuser(Row(in[1]), userid) )
                => /\ result'.status = "NotOwner"
                   /\ UNCHANGED <<pg_module, pg_depend>>
      ]_vars

\* C8: after a RENAME TO that succeeded the old name resolves to nothing, the
\* new name to the id the old name had, and the module's owner, ACL, schema and
\* members are what they were.
C8_RenameKeepsIdentity ==
    [][ (pc = "idle" /\ result'.op = "rename" /\ result'.status = "ok") =>
          \A in \in RenameInputs : AlterModuleRename(in[1], in[2]) =>
              LET old == Row(in[1]) IN
              /\ Exists(in[1])
              /\ lookup(pg_module', in[1].name, Nsp(in[1])) = InvalidOid
              /\ lookup(pg_module', in[2], Nsp(in[1])) = old.oid
              /\ [old EXCEPT !.modname = in[2]] \in pg_module'
              /\ pg_module' \ {[old EXCEPT !.modname = in[2]]} = pg_module \ {old}
              /\ pg_proc' = pg_proc
      ]_vars

\* C8 witness: a module with a member and a granted ACL has been renamed
C8_Witness ==
    /\ result.op = "rename"
    /\ result.status = "ok"
    /\ \E m \in pg_module :
          /\ m.oid = result.oid
          /\ ~m.modacl.isnull
          /\ \E p \in pg_proc : p.pronamespace = m.oid

\* C9: RENAME TO a name some module of the schema already has (the module's
\* own name included) raises DuplicateModule and changes no module row.
C9_RenameCollision ==
    [][ (pc = "idle" /\ result'.op = "rename") => \A in \in RenameInputs :
              ( /\ AlterModuleRename(in[1], in[2])
                /\ Exists(in[1])
                /\ SearchSysCacheExists2(pg_module, in[2], Nsp(in[1])) )
              => /\ result'.status = "DuplicateModule"
                 /\ pg_module' = pg_module
      ]_vars

\* C9 witness: a rename onto the name of the other module was refused
C9_Witness ==
    /\ result.op = "rename"
    /\ result.status = "DuplicateModule"
    /\ Cardinality(pg_module) = 2

\* C10: after an OWNER TO B that succeeded on a module owned by A # B, the
\* stored row has owner B and an ACL in which every A is replaced by B.
C10_OwnerAndAclRewritten ==
    [][ (pc = "idle" /\ result'.op = "set_owner" /\ result'.status = "ok") =>
          \A in \in OwnerInputs :
              LET tup == ModuleRows(pg_module, in[3], Nsp(in[1])) IN
              ( /\ AlterModuleOwner(in[1], in[2], in[3])
                /\ \E m \in tup : m.modowner # in[2] )
              => \A m \in tup : \E n \in pg_module' :
                     /\ n.oid = m.oid
                     /\ n.modowner = in[2]
                     /\ n.modacl = IF m.modacl.isnull THEN m.modacl
                                   ELSE MakeAcl(aclnewowner(m.modacl.items,
                                                            m.modowner, in[2]))
      ]_vars

RaisedUndefined(nl) ==
    /\ result'.status = "UndefinedObject"
    /\ ~SearchSysCacheExists2(pg_module', nl.name, Nsp(nl))

\* C12: each ALTER MODULE variant (CREATE/REPLACE FUNCTION, ALTER FUNCTION,
\* RENAME TO, OWNER TO) on a (schema, name) that has no module row raises
\* UndefinedObject, and afterwards there is still no row for that (schema, name).
C12_AlterMissingModule ==
    [][ (pc = "idle" /\ result'.op \in {"alter_create", "alter_alter",
                                        "rename", "set_owner"}) =>
          /\ \A in \in AlterCreateInputs :
                (AlterModuleCreateReplaceFunction(in[1], in[2], in[3]) /\ ~Exists(in[1]))
                => RaisedUndefined(in[1])
          /\ \A in \in AlterAlterInputs :
                (AlterModuleAlterFunction(in[1], in[2], in[3], result'.oid) /\ ~Exists(in[1]))
                => RaisedUndefined(in[1])
          /\ \A in \in RenameInputs :
                (AlterModuleRename(in[1], in[2]) /\ ~Exists(in[1]))
                => RaisedUndefined(in[1])
          /\ \A in \in OwnerInputs :
                (AlterModuleOwner(in[1], in[2], in[3]) /\ ~Exists(in[1]))
                => RaisedUndefined(in[1])
      ]_vars

\* C13: ALTER MODULE ... CREATE [OR REPLACE] FUNCTION whose routine name has
\* more than one part never succeeds and neither adds nor replaces a routine;
\* once the caller is past the privilege checks on an existing module the error
\* is InvalidModuleDefinition, also for a statement the dispatcher would have
\* refused itself, so the dispatcher is never reached.
C13_QualifiedRoutineRejected ==
    [][ (pc = "idle" /\ result'.op = "alter_create") => \A in \in AlterCreateInputs :
              (AlterModuleCreateReplaceFunction(in[1], in[2], in[3]) /\ in[3])
              => /\ result'.status \notin {"ok", "SubStatementFailed"}
                 /\ UNCHANGED <<pg_proc, pg_depend, pg_module>>
                 /\ ( /\ Exists(in[1])
                      /\ \/ superuser_arg(userid)
                         \/ (in[1].schema = NoSchema /\ HoldsBothCreate(Row(in[1]), userid)) )
                    => result'.status = "InvalidModuleDefinition"
      ]_vars

\* C13 witness: a role holding both CREATE privileges was refused with
\* InvalidModuleDefinition on a module that has a member already
C13_Witness ==
    /\ result.op = "alter_create"
    /\ result.status = "InvalidModuleDefinition"
    /\ ~superuser_arg(userid)
    /\ \E m \in pg_module : /\ HoldsBothCreate(m, userid)
                             /\ \E p \in pg_proc : p.pronamespace = m.oid

DropInputs == NameLists \X BOOLEAN

\* the member routines of module row m
Members(pp, m) == {p \in pp : p.pronamespace = m.oid}

\* C14: DROP MODULE M by its owner or a superuser, when M has a member: without
\* CASCADE it raises DependencyViolation and module rows and routines stay as
\* they are; with CASCADE it succeeds, and afterwards M's name resolves to
\* nothing, no row has M's id and no routine has M as its namespace.
C14_DropRestrictOrCascade ==
    [][ (pc = "idle" /\ result'.op = "drop") => \A in \in DropInputs :
              ( /\ DropModule(in[1], in[2])
                /\ Exists(in[1])
                /\ Members(pg_proc, Row(in[1])) # {}
                /\ (Row(in[1]).modowner = userid \/ superuser_arg(userid)) )
              => IF ~in[2]
                 THEN /\ result'.status = "DependencyViolation"
                      /\ UNCHANGED <<pg_module, pg_proc, pg_depend>>
                 ELSE /\ result'.status = "ok"
                      /\ lookup(pg_module', in[1].name, Nsp(in[1])) = InvalidOid
                      /\ \A m \in pg_module' : m.oid # Row(in[1]).oid
                      /\ Members(pg_proc', Row(in[1])) = {}
                      /\ pg_module' = pg_module \ {Row(in[1])}
                      /\ pg_proc' = pg_proc \ Members(pg_proc, Row(in[1]))
      ]_vars

\* C14 witness: a DROP MODULE ... CASCADE has removed a module and its member
\* and left another module in place
C14_Witness ==
    /\ result.op = "drop"
    /\ result.status = "ok"
    /\ result.at >= 1
    /\ pg_module # {}

\* routine fname of module (nsp, modname) resolves under its three-part name to
\* one routine and, with nsp on the search path, under its two-part name to the
\* same one
ResolvesBothWays(pm, pp, path, nsp, modname, fname) ==
    /\ Cardinality(ResolveQualified(pm, pp, nsp, modname, fname)) = 1
    /\ (\E k \in DOMAIN path : path[k] = nsp)
          => ResolveOnPath(pm, pp, path, modname, fname)
                 = ResolveQualified(pm, pp, nsp, modname, fname)

BothDone(s, t) ==
    /\ s # t
    /\ sessions[s].pc = "done" /\ sessions[t].pc = "done"
    /\ sessions[s].status # "InsufficientPrivilege"
    /\ sessions[t].status # "InsufficientPrivilege"
    /\ sessions[s].modname = sessions[t].modname
    /\ sessions[s].nspoid = sessions[t].nspoid

C17_ContextRestoredOnSuccess ==
    [][ CreateModuleCommand_Finish =>
              /\ result'.status = "ok"
              /\ searchpath' = xact.searchpath
              /\ userid' = xact.userid
              /\ secctx' = xact.secctx
              /\ \A k \in DOMAIN searchpath' : searchpath'[k] # cur.moduleId
      ]_vars

\* C17 witness: a CREATE MODULE ... AUTHORIZATION of a role other than the
\* invoker, with a routine in its body, has completed
C17_Witness ==
    /\ result.op = "create"
    /\ result.status = "ok"
    /\ pc = "idle"
    /\ \E m \in pg_module :
          /\ m.oid = result.oid
          /\ m.modowner # userid
          /\ Members(pg_proc, m) # {}

\* C18: when CREATE MODULE aborts after its identity switch or its search-path
\* push (ModuleCreate raising, or embedded statement i raising), search path,
\* user id and security context are the ones of the statement's start, the
\* pushed entry popped once and no more; whenever the backend is between
\* statements its search path holds schemas only and the local-userid-change
\* flag is off.
C18_ContextRestoredOnAbort ==
    [][ /\ (pc = "body" /\ pc' = "idle" /\ result'.status = "SubStatementFailed") =>
              /\ searchpath' = xact.searchpath
              /\ Len(searchpath') = Len(searchpath) - 1
              /\ userid' = xact.userid
              /\ secctx' = xact.secctx
        /\ (pc = "idle" /\ result'.op = "create" /\ result'.status = "DuplicateModule") =>
              /\ pc' = "idle"
              /\ UNCHANGED <<searchpath, userid, secctx>>
        /\ pc' = "idle" =>
              /\ \A k \in DOMAIN searchpath' : searchpath'[k] \in Schemas
              /\ SECURITY_LOCAL_USERID_CHANGE \notin secctx'
      ]_vars

\* C18 witness: a CREATE MODULE run by a role that is no superuser was aborted
\* by its second embedded statement, after an earlier module had been created
C18_Witness ==
    /\ result.op = "create"
    /\ result.status = "SubStatementFailed"
    /\ result.at = 2
    /\ pc = "idle"
    /\ ~superuser_arg(userid)
    /\ nextOid > FirstNormalObjectId + 1

\* C19: the module row is in the catalog and visible when the first embedded
\* statement is dispatched; the statements are dispatched at positions 1, 2,
\* ... in turn; each is dispatched with nothing written and not yet visible,
\* so that it sees the module and what statements 1..i-1 made: a plain CREATE
\* FUNCTION of a name an earlier statement created is refused.
C19_OrderAndVisibility ==
    [][ /\ (pc = "idle" /\ pc' = "body") =>
              /\ cur'.i = 1
              /\ cur'.pending = {}
              /\ \E m \in pg_module' : m.oid = cur'.moduleId
              /\ pg_proc' = pg_proc
        /\ pc = "body" => \A stmt \in FuncStmts : CreateModuleCommand_ExecStmt(stmt) =>
              /\ cur.pending = {}
              /\ \E m \in pg_module : m.oid = cur.moduleId
              /\ pc' = "body" => (cur'.i = cur.i + 1 /\ cur'.pending = {})
              /\ pc' = "idle" => result'.at = cur.i
              /\ (~stmt.replace /\ ProcRows(pg_proc, cur.moduleId, stmt.funcname) # {})
                    => pc' = "idle"
        /\ CreateModuleCommand_Finish => cur.i = cur.len + 1
      ]_vars

\* C19 witness: two embedded statements of a CREATE MODULE have been dispatched
\* in turn, and a routine of the module has a later definition than the first
C19_Witness ==
    /\ pc = "body"
    /\ cur.i = 3
    /\ \E p \in pg_proc : p.pronamespace = cur.moduleId /\ p.def # 1

\* C20: CREATE MODULE ... AUTHORIZATION R with R other than the invoker: the
\* module row names R as owner, the body runs as R, and every routine an
\* embedded statement creates has owner R and the module's id, not the
\* schema's, as its namespace.
C20_ExplicitOwnerOwnsMembers ==
    [][ /\ (pc = "idle" /\ pc' = "body") => \A in \in CreateInputs, ine \in BOOLEAN :
              ( /\ CreateModuleCommand_Begin(in[1], in[2], ine, in[3])
                /\ in[2] # NoRole /\ in[2] # userid )
              => /\ cur'.owner_uid = in[2]
                 /\ cur'.saved_uid = userid
                 /\ ModuleByOid(pg_module', cur'.moduleId).modowner = in[2]
        /\ (pc = "body" /\ cur.owner_uid # cur.saved_uid) =>
              /\ \A stmt \in FuncStmts : CreateModuleCommand_ExecStmt(stmt) =>
                    \A p \in pg_proc' \ pg_proc :
                        /\ p.proowner = cur.owner_uid
                        /\ p.pronamespace = cur.moduleId
                        /\ p.pronamespace # cur.namespaceId
              /\ CreateModuleCommand_Finish =>
                    /\ ModuleByOid(pg_module', cur.moduleId).modowner = cur.owner_uid
                    /\ \A p \in Members(pg_proc', [oid |-> cur.moduleId]) :
                           p.proowner = cur.owner_uid /\ p.proowner # userid'
      ]_vars

\* C20 witness: inside the body of a CREATE MODULE ... AUTHORIZATION of another
\* role, a routine has been created
C20_Witness ==
    /\ pc = "body"
    /\ cur.owner_uid # cur.saved_uid
    /\ \E p \in pg_proc : p.pronamespace = cur.moduleId /\ p.proowner = cur.owner_uid

\* what a DROP SCHEMA nsp finds as depending on the schema: the objects with
\* an edge to the schema's address
SchemaDependents(pd, nsp) == {e.obj : e \in {d \in pd : d.ref = NamespaceAddress(nsp)}}

\* C21: when CREATE MODULE M in S completes, the dependency catalog has an edge
\* from M to the schema S, so M is among what a DROP SCHEMA S finds depending
\* on S (to cascade to, or to be blocked by).
C21_EdgeToSchema ==
    [][ CreateModuleCommand_Finish =>
              /\ Edge(ModuleAddress(cur.moduleId), NamespaceAddress(cur.namespaceId), "n")
                     \in pg_depend'
              /\ ModuleAddress(cur.moduleId) \in SchemaDependents(pg_depend', cur.namespaceId)
      ]_vars

\* C22: CREATE MODULE by an invoker without CREATE on the target schema raises
\* InsufficientPrivilege, with or without IF NOT EXISTS, whether or not the
\* module exists and whatever role AUTHORIZATION names, and changes neither
\* catalog nor search path nor identity; a CREATE MODULE that gets as far as the
\* notice or the row insert was run by an invoker holding that privilege.
C22_SchemaCheckFirst ==
    [][ (pc = "idle" /\ result'.op = "create") =>
          \A in \in CreateInputs, ine \in BOOLEAN :
              CreateModuleCommand_Begin(in[1], in[2], ine, in[3]) =>
                  IF pg_namespace_aclcheck(nspacl, Nsp(in[1]), userid)
                  THEN result'.status # "InsufficientPrivilege"
                  ELSE /\ result'.status = "InsufficientPrivilege"
                       /\ pc' = "idle"
                       /\ UNCHANGED <<pg_module, pg_proc, pg_depend, nextOid>>
                       /\ UNCHANGED <<userid, secctx, searchpath>>
      ]_vars

\* C22 witness: a role that is no superuser was refused with
\* InsufficientPrivilege while every module name it could have given was taken
C22_Witness ==
    /\ result.op = "create"
    /\ result.status = "InsufficientPrivilege"
    /\ ~superuser_arg(userid)
    /\ \A s \in Schemas, n \in ModNames : SearchSysCacheExists2(pg_module, n, s)

\* the role that issued the statement a step belongs to
Invoker == IF pc = "body" THEN xact.userid ELSE userid

\* C23: whenever a step makes role R the owner of a module (a new row, a row
\* whose owner changes, a new owner edge) or of a routine, the role that issued
\* the statement is R, a member of R, or a superuser; this covers OWNER TO R
\* and CREATE MODULE ... AUTHORIZATION R with its body.
C23_OwnerOnlyByMember ==
    [][ /\ \A m \in pg_module' \ pg_module : is_member_of_role(Invoker, m.modowner)
        /\ \A p \in pg_proc' \ pg_proc : is_member_of_role(Invoker, p.proowner)
        /\ \A e \in pg_depend' \ pg_depend :
                e.deptype = "o" => is_member_of_role(Invoker, e.ref[2])
      ]_vars
====
